---- MODULE Spec2Model ----
(***************************************************************************)
(* Model of the earthquake data pipeline (EarthquakeDataPipeline).         *)
(*                                                                         *)
(* Python strings are TLA+ strings; a character is a string of length 1.   *)
(* An optional value (Python None / pandas NaN versus a value) is a set     *)
(* with no element or with one element: None == {}, Some(v) == {v}.        *)
(***************************************************************************)
EXTENDS Integers, Sequences, FiniteSets, TLC

VARIABLES
    pc,         \* position of the running operation
    txt,        \* the place string handed to parse_place
    parsed,     \* parse_place(txt)
    reparsed,   \* parse_place of the string rebuilt from parsed
    token,      \* a value of the state column
    expanded,   \* expand_state_name(token)
    twice,      \* expand_state_name(expanded)
    country,    \* get_country_continent(expanded): <<country, continent>>
    region,     \* the region column computed from expanded
    df,               \* the table handed from one step of run_pipeline to the next
    raw_data_file,    \* the CSV files the steps write: None until written
    transformed_file,
    county_file,
    final_file,
    shape_zip_local,  \* the downloaded archive: "absent", "partial" or "complete"
    shape_dir,        \* the extracted directory: "absent", "partial" or "complete"
    error,            \* the exception that ended the run, "" if none
    requests,         \* the GET requests issued so far, in order
    all_data          \* load_earthquake_data: the monthly tables collected so far

parseVars == <<txt, parsed, reparsed>>
normVars == <<token, expanded, twice, country, region>>
fileVars == <<raw_data_file, transformed_file, county_file, final_file>>
diskVars == <<shape_zip_local, shape_dir>>
loadVars == <<requests, all_data>>
pipeVars == <<df, fileVars, diskVars, error, loadVars>>
vars == <<pc, parseVars, normVars, pipeVars>>

None == {}
Some(v) == {v}
Get(o) == CHOOSE v \in o : TRUE

(***************************************************************************)
(* Bounds of the checked inputs.                                           *)
(***************************************************************************)
MaxParts == 5

\* The fragments place strings are assembled from.
Parts == {"3km", "3 KM", " ", "N of ", "Nof", "x", ",", ", CA", "-"}

(***************************************************************************)
(* Characters and the character classes of the pattern.                    *)
(***************************************************************************)
Char(s, i) == SubSeq(s, i, i)

UpperCase == <<"A","B","C","D","E","F","G","H","I","J","K","L","M",
               "N","O","P","Q","R","S","T","U","V","W","X","Y","Z">>
LowerCase == <<"a","b","c","d","e","f","g","h","i","j","k","l","m",
               "n","o","p","q","r","s","t","u","v","w","x","y","z">>

\* re.IGNORECASE compares characters after case folding.
Fold(c) ==
    IF \E i \in 1..26 : UpperCase[i] = c
    THEN LowerCase[CHOOSE i \in 1..26 : UpperCase[i] = c]
    ELSE c

\* \d
Digit == {"0","1","2","3","4","5","6","7","8","9"}
\* \s, and the characters str.strip() removes
Space == {" ", "\t", "\n"}
\* [NSEW] under re.IGNORECASE
Compass == {"N","S","E","W","n","s","e","w"}
\* [A-Za-z ]
StateChar == {UpperCase[i] : i \in 1..26} \cup {LowerCase[i] : i \in 1..26} \cup {" "}

\* The longest run of characters of class S in s from position i on.
RECURSIVE Run(_, _, _)
Run(S, s, i) ==
    IF i <= Len(s) /\ Char(s, i) \in S THEN 1 + Run(S, s, i + 1) ELSE 0

\* The longest run of characters other than c (the class [^c]).
RECURSIVE RunNot(_, _, _)
RunNot(c, s, i) ==
    IF i <= Len(s) /\ Char(s, i) # c THEN 1 + RunNot(c, s, i + 1) ELSE 0

\* A two-letter literal at position i, compared case-insensitively.
LitAt(a, b, s, i) ==
    /\ i + 1 <= Len(s)
    /\ Fold(Char(s, i)) = a
    /\ Fold(Char(s, i + 1)) = b

\* $ without re.MULTILINE: the end of the string, or just before a final newline.
AtEnd(s, i) == i = Len(s) + 1 \/ (i = Len(s) /\ Char(s, i) = "\n")

\* str.strip()
RECURSIVE lstrip(_)
lstrip(s) == IF Len(s) > 0 /\ Char(s, 1) \in Space THEN lstrip(Tail(s)) ELSE s
RECURSIVE rstrip(_)
rstrip(s) ==
    IF Len(s) > 0 /\ Char(s, Len(s)) \in Space
    THEN rstrip(SubSeq(s, 1, Len(s) - 1)) ELSE s
strip(s) == rstrip(lstrip(s))

(***************************************************************************)
(* The pattern of parse_place.  Every quantifier of the regular expression *)
(* is a count; a way to match is a choice of all the counts.  The engine   *)
(* backtracks: it returns the match that is first in the order in which it *)
(* tries the counts (a greedy quantifier tries its largest count first, a  *)
(* lazy one its smallest, an optional group is tried before it is          *)
(* skipped).  key lists the counts in pattern order, signed so that the    *)
(* count tried first is the smallest number.                               *)
(***************************************************************************)

\* (?:(?P<distance>\d+\s*km)\s*)?   at the start of s
DistanceAlts(s) ==
    { [used |-> FALSE, cap |-> None, next |-> 1, key |-> <<1, 0, 0, 0>>] }
    \cup UNION { UNION {
        { [used |-> TRUE,
           cap  |-> Some(SubSeq(s, 1, d + w1 + 2)),
           next |-> 1 + d + w1 + 2 + w2,
           key  |-> <<0, 0 - d, 0 - w1, 0 - w2>>] :
          w2 \in 0..Run(Space, s, 1 + d + w1 + 2) } :
        w1 \in {w \in 0..Run(Space, s, 1 + d) : LitAt("k", "m", s, 1 + d + w)} } :
        d \in 1..Run(Digit, s, 1) }

\* {1,3}
MaxCompass == 3

\* (?:(?P<direction>[NSEW]{1,3})\s*of\s*)?   at position p
DirectionAlts(s, p) ==
    { [used |-> FALSE, cap |-> None, next |-> p, key |-> <<1, 0, 0, 0>>] }
    \cup UNION { UNION {
        { [used |-> TRUE,
           cap  |-> Some(SubSeq(s, p, p + n - 1)),
           next |-> p + n + w1 + 2 + w2,
           key  |-> <<0, 0 - n, 0 - w1, 0 - w2>>] :
          w2 \in 0..Run(Space, s, p + n + w1 + 2) } :
        w1 \in {w \in 0..Run(Space, s, p + n) : LitAt("o", "f", s, p + n + w)} } :
        n \in {k \in 1..MaxCompass : k <= Run(Compass, s, p)} }

\* The state group without the \s* after the comma: (?:,(?P<state>[A-Za-z ]+))? $
StateAltsNoBlanks(s, p) ==
    (IF AtEnd(s, p)
     THEN { [used |-> FALSE, cap |-> None, key |-> <<1, 0, 0>>] }
     ELSE {})
    \cup (IF p <= Len(s) /\ Char(s, p) = ","
          THEN { [used |-> TRUE,
                  cap  |-> Some(SubSeq(s, p + 1, p + n)),
                  key  |-> <<0, 0, 0 - n>>] :
                 n \in {k \in 1..Run(StateChar, s, p + 1) : AtEnd(s, p + 1 + k)} }
          ELSE {})

\* (?:,\s*(?P<state>[A-Za-z ]+))? $   at position p
StateAlts(s, p) ==
    (IF AtEnd(s, p)
     THEN { [used |-> FALSE, cap |-> None, key |-> <<1, 0, 0>>] }
     ELSE {})
    \cup (IF p <= Len(s) /\ Char(s, p) = ","
          THEN UNION {
            { [used |-> TRUE,
               cap  |-> Some(SubSeq(s, p + 1 + w, p + w + n)),
               key  |-> <<0, 0 - w, 0 - n>>] :
              n \in {k \in 1..Run(StateChar, s, p + 1 + w) : AtEnd(s, p + 1 + w + k)} } :
            w \in 0..Run(Space, s, p + 1) }
          ELSE {})

\* (?P<nearest>[^,]+?) at position p, followed by the state group and $
NearestAlts(s, p) ==
    UNION { { [nearest |-> SubSeq(s, p, p + n - 1), state |-> c.cap,
               key |-> <<n>> \o c.key] : c \in StateAlts(s, p + n) } :
            n \in 1..RunNot(",", s, p) }

\* All the ways the whole pattern matches s from its first character.
Matches(s) ==
    UNION { UNION {
        { [distance |-> a.cap, direction |-> b.cap, nearest |-> c.nearest,
           state |-> c.state, key |-> a.key \o b.key \o c.key] :
          c \in NearestAlts(s, b.next) } :
        b \in DirectionAlts(s, a.next) } :
        a \in DistanceAlts(s) }

\* k comes before l in the engine's order (tuples of equal length).
RECURSIVE Before(_, _)
Before(k, l) ==
    /\ Len(k) > 0
    /\ \/ Head(k) < Head(l)
       \/ Head(k) = Head(l) /\ Before(Tail(k), Tail(l))

\* pattern.match(s): the first match in the engine's order, if any.
Match(s) ==
    LET M == Matches(s)
    IN  IF M = {} THEN None
        ELSE Some(CHOOSE m \in M : \A o \in M : o.key = m.key \/ Before(m.key, o.key))

parse_place(t) ==
    LET m == Match(strip(t))
    IN  IF m = None
        THEN [distance |-> None, direction |-> None, nearest |-> t, state |-> None]
        ELSE [distance  |-> Get(m).distance,
              direction |-> Get(m).direction,
              nearest   |-> strip(Get(m).nearest),
              state     |-> Get(m).state]

(***************************************************************************)
(* Place strings: every concatenation of at most MaxParts fragments.       *)
(***************************************************************************)
RECURSIVE Concats(_)
Concats(n) ==
    IF n = 0 THEN {""}
    ELSE LET P == Concats(n - 1) IN P \cup {s \o p : s \in P, p \in Parts}

NoResult == [distance |-> None, direction |-> None, nearest |-> "", state |-> None]

(***************************************************************************)
(* The parser on its own: parse_place applied to a place string, and to    *)
(* the string "<nearest>, <state>" rebuilt from its result.                *)
(***************************************************************************)
ParseIdle == txt = "" /\ parsed = NoResult /\ reparsed = NoResult
PipeIdle ==
    /\ df = <<>> /\ error = ""
    /\ raw_data_file = None /\ transformed_file = None
    /\ county_file = None /\ final_file = None
    /\ shape_zip_local = "absent" /\ shape_dir = "absent"
    /\ requests = <<>> /\ all_data = <<>>
NormIdle ==
    /\ token = None /\ expanded = None /\ twice = None
    /\ country = <<"", "">> /\ region = None

ParseInit ==
    /\ pc = "place"
    /\ txt \in Concats(MaxParts)
    /\ parsed = NoResult
    /\ reparsed = NoResult
    /\ NormIdle /\ PipeIdle

ParsePlace ==
    /\ pc = "place"
    /\ parsed' = parse_place(txt)
    /\ pc' = "parsed"
    /\ UNCHANGED <<txt, reparsed, normVars, pipeVars>>

Reconstruct(r) == r.nearest \o ", " \o Get(r.state)

Reparse ==
    /\ pc = "parsed"
    /\ parsed.state # None
    /\ reparsed' = parse_place(Reconstruct(parsed))
    /\ pc' = "reparsed"
    /\ UNCHANGED <<txt, parsed, normVars, pipeVars>>

ParseNext == ParsePlace \/ Reparse

ParseSpec == ParseInit /\ [][ParseNext]_vars

(***************************************************************************)
(* State, country and region normalisation.                                *)
(***************************************************************************)
\* self.us_regions: the regions in the order of the dictionary, each with its list.
us_regions ==
    <<
      [region |-> "Northeast", states |-> <<
          "Connecticut", "Massachusetts", "Maine", "New Hampshire",
          "Rhode Island", "Vermont", "New Jersey", "New York", "Pennsylvania" >>],
      [region |-> "Midwest", states |-> <<
          "Illinois", "Indiana", "Iowa", "Kansas", "Michigan", "Minnesota",
          "Missouri", "Nebraska", "North Dakota", "Ohio", "South Dakota",
          "Wisconsin" >>],
      [region |-> "South", states |-> <<
          "Alabama", "Arkansas", "Delaware", "Florida", "Georgia", "Kentucky",
          "Louisiana", "Maryland", "Mississippi", "North Carolina",
          "Oklahoma", "South Carolina", "Tennessee", "Texas", "Virginia",
          "West Virginia" >>],
      [region |-> "West", states |-> <<
          "Alaska", "Arizona", "California", "Colorado", "Hawaii", "Idaho",
          "Montana", "Nevada", "New Mexico", "Oregon", "Utah", "Washington",
          "Wyoming" >>]
    >>

\* self.state_mapping, as its (key, value) pairs.
state_mapping ==
    {
      <<"CA", "California">>, <<"NV", "Nevada">>, <<"OR", "Oregon">>,
      <<"AK", "Alaska">>, <<"AZ", "Arizona">>, <<"AR", "Arkansas">>,
      <<"CO", "Colorado">>, <<"CT", "Connecticut">>, <<"DE", "Delaware">>,
      <<"FL", "Florida">>, <<"GA", "Georgia">>, <<"HI", "Hawaii">>,
      <<"ID", "Idaho">>, <<"IL", "Illinois">>, <<"IN", "Indiana">>,
      <<"IA", "Iowa">>, <<"KS", "Kansas">>, <<"KY", "Kentucky">>,
      <<"LA", "Louisiana">>, <<"ME", "Maine">>, <<"MD", "Maryland">>,
      <<"MA", "Massachusetts">>, <<"MI", "Michigan">>, <<"MN", "Minnesota">>,
      <<"MS", "Mississippi">>, <<"MO", "Missouri">>, <<"MT", "Montana">>,
      <<"NE", "Nebraska">>, <<"NH", "New Hampshire">>, <<"NJ", "New Jersey">>,
      <<"NM", "New Mexico">>, <<"NY", "New York">>,
      <<"NC", "North Carolina">>, <<"ND", "North Dakota">>, <<"OH", "Ohio">>,
      <<"OK", "Oklahoma">>, <<"PA", "Pennsylvania">>,
      <<"RI", "Rhode Island">>, <<"SC", "South Carolina">>,
      <<"SD", "South Dakota">>, <<"TN", "Tennessee">>, <<"TX", "Texas">>,
      <<"UT", "Utah">>, <<"VT", "Vermont">>, <<"VA", "Virginia">>,
      <<"WA", "Washington">>, <<"WV", "West Virginia">>,
      <<"WI", "Wisconsin">>, <<"WY", "Wyoming">>
    }

\* us_states of get_country_continent
us_states ==
    {
      "California", "Alaska", "Hawaii", "Texas", "Washington", "Montana",
      "New Mexico", "Utah", "Idaho", "Oregon", "Wyoming", "Colorado",
      "New Jersey", "Tennessee", "Missouri", "Arkansas", "Arizona", "Kansas",
      "Georgia", "Maine", "South Carolina", "Nevada", "North Carolina",
      "New York", "Louisiana", "Connecticut", "Illinois", "Oklahoma",
      "Kentucky", "New Hampshire", "Virginia", "Nebraska", "South Dakota",
      "Minnesota", "Alabama", "Massachusetts", "Pennsylvania", "Maryland",
      "West Virginia", "Mississippi", "Wisconsin", "Florida", "Indiana"
    }

\* us_territories of get_country_continent
us_territories ==
    {"Puerto Rico", "Guam", "Northern Mariana Islands", "American Samoa"}

Range(f) == {f[i] : i \in DOMAIN f}

\* Bound on the blanks around a value of the state column.
MaxPad == 1

RECURSIVE Blanks(_)
Blanks(n) == IF n = 0 THEN "" ELSE " " \o Blanks(n - 1)

\* expand_state_name with a default put in the place of a missing state.
expand_state_name_default(state) ==
    IF state = None THEN Some("Unknown")
    ELSE LET state_clean == strip(Get(state))
         IN  IF \E p \in state_mapping : p[1] = state_clean
             THEN Some((CHOOSE p \in state_mapping : p[1] = state_clean)[2])
             ELSE Some(state_clean)

expand_state_name(state) ==
    IF state = None THEN state
    ELSE LET state_clean == strip(Get(state))
         IN  IF \E p \in state_mapping : p[1] = state_clean
             THEN Some((CHOOSE p \in state_mapping : p[1] = state_clean)[2])
             ELSE Some(state_clean)

get_country_continent(state) ==
    IF state = None THEN <<"Unknown", "Unknown">>
    ELSE LET state_clean == strip(Get(state))
         IN  IF state_clean \in us_states \/ state_clean \in us_territories
             THEN <<"United States", "North America">>
             ELSE <<"Unknown", "Unknown">>

\* The regions (by position in us_regions) whose list names state s.
RegionsListing(s) ==
    {i \in 1..Len(us_regions) : s \in Range(us_regions[i].states)}

\* state_to_region as the two loops build it: an assignment to a key that
\* is already there replaces the region stored for it.
state_to_region ==
    [s \in UNION {Range(us_regions[i].states) : i \in 1..Len(us_regions)} |->
        us_regions[CHOOSE i \in RegionsListing(s) :
                      \A j \in RegionsListing(s) : j <= i].region]

\* Series.map(state_to_region): a value that is no key, or a missing value,
\* maps to a missing value.
map_region(state) ==
    IF state # None /\ Get(state) \in DOMAIN state_to_region
    THEN Some(state_to_region[Get(state)])
    ELSE None

\* Series.fillna(v)
fillna(cell, v) == IF cell = None THEN Some(v) ELSE cell

\* The region column without the fillna('Non-US').
region_column_unfilled(state) == map_region(state)

\* df['region'] = df['state'].map(state_to_region), then fillna('Non-US')
region_column(state) == fillna(map_region(state), "Non-US")

RegionStates == DOMAIN state_to_region
MappingKeys == {p[1] : p \in state_mapping}

\* Values of the state column: every key and every full name of the tables,
\* values of neither kind, each with up to MaxPad blanks around it, and the
\* missing value.
StateWords ==
    MappingKeys \cup RegionStates \cup us_states \cup us_territories
    \cup {"AL", "ZZ", "ca", "Mexico", "Baja California", "B.C.", ""}

StateValues ==
    {None} \cup
    {Some(Blanks(a) \o w \o Blanks(b)) : w \in StateWords, a \in 0..MaxPad, b \in 0..MaxPad}

NormInit ==
    /\ pc = "token"
    /\ token \in StateValues
    /\ expanded = None /\ twice = None
    /\ country = <<"", "">> /\ region = None
    /\ ParseIdle /\ PipeIdle

ExpandState ==
    /\ pc = "token"
    /\ expanded' = expand_state_name(token)
    /\ pc' = "expanded"
    /\ UNCHANGED <<token, twice, country, region, parseVars, pipeVars>>

ExpandAgain ==
    /\ pc = "expanded"
    /\ twice' = expand_state_name(expanded)
    /\ pc' = "twice"
    /\ UNCHANGED <<token, expanded, country, region, parseVars, pipeVars>>

Classify ==
    /\ pc = "expanded"
    /\ country' = get_country_continent(expanded)
    /\ pc' = "classified"
    /\ UNCHANGED <<token, expanded, twice, region, parseVars, pipeVars>>

MapRegion ==
    /\ pc = "classified"
    /\ region' = region_column(expanded)
    /\ pc' = "region"
    /\ UNCHANGED <<token, expanded, twice, country, parseVars, pipeVars>>

NormNext == ExpandState \/ ExpandAgain \/ Classify \/ MapRegion

NormSpec == NormInit /\ [][NormNext]_vars

(***************************************************************************)
(* The pipeline run: run_pipeline after load_earthquake_data has returned  *)
(* the combined table.  A table is the sequence of its rows; a row is a    *)
(* record of its cells, each cell a value or missing.  The column time     *)
(* stands for the feed columns other than id, latitude, longitude and      *)
(* place: it is missing when any of them is.                               *)
(***************************************************************************)

\* Bound on the number of records of the raw table.
MaxRows == 2

\* The place texts of the records of a run.
PipelinePlaces ==
    {"3km ENE of Springfield, IL", "Anchorage, Alaska", "Pacific-Antarctic Ridge",
     "5 KM N of Reno, NV", "2km S of Columbus, OH", "7km SW of Ensenada, Mexico"}

\* The county polygons of the shapefile, along one parallel: a county covers
\* the longitudes from west to east, its boundary included, so that the
\* longitude where two counties meet belongs to both.
Counties ==
    << [NAME |-> "Washoe", west |-> 1, east |-> 2],
       [NAME |-> "Storey", west |-> 2, east |-> 3] >>

\* Longitudes of the records: off every county, inside one, on a shared boundary.
Longitudes == {0, 1, 2}

RawRow(i, place, lon, time) ==
    [id |-> Some(i), time |-> time, latitude |-> Some(0), longitude |-> Some(lon),
     place |-> Some(place)]

\* The kinds of record: every place at every longitude with all feed
\* columns present, and one record with a feed column missing.
RowKinds ==
    {<<p, l, Some("t")>> : p \in PipelinePlaces, l \in Longitudes}
    \cup {<<"3km ENE of Springfield, IL", 1, None>>}

RawTables ==
    UNION { { [i \in 1..n |-> RawRow(i, k[i][1], k[i][2], k[i][3])] :
              k \in [1..n -> RowKinds] } : n \in 0..MaxRows }

\* DataFrame.dropna(): the rows without a missing cell.
Complete(r) == \A c \in DOMAIN r : r[c] # None
dropna(rows) == SelectSeq(rows, Complete)

\* parse_place on the place texts of a run, evaluated once.
ParsedPlace == [p \in PipelinePlaces |-> parse_place(p)]

\* line 197-198: the four columns of parse_place beside the feed columns.
WithParsed(r) ==
    LET p == ParsedPlace[Get(r.place)]
    IN  [id |-> r.id, time |-> r.time, latitude |-> r.latitude,
         longitude |-> r.longitude, place |-> r.place,
         distance |-> p.distance, direction |-> p.direction,
         nearest |-> Some(p.nearest), state |-> p.state]

\* Line 201 left out: every parsed row is kept.
KeepUnparsed(rows) == rows

\* line 201: the rows with a missing parsed component are removed.
DropUnparsed(rows) == dropna(rows)

\* lines 204-221: state expanded, country and continent added, columns
\* renamed, place dropped.
Transformed(r) ==
    LET state == expand_state_name(r.state)
        cc == get_country_continent(state)
    IN  [earthquake_id |-> r.id, time |-> r.time, latitude |-> r.latitude,
         longitude |-> r.longitude,
         offset_distance |-> r.distance, offset_direction |-> r.direction,
         nearest_locality |-> r.nearest, state |-> state,
         country |-> Some(cc[1]), continent |-> Some(cc[2])]

\* Lines 224-225 left out: every classified row is kept.
KeepEveryCountry(r) == TRUE

\* lines 224-225
IsUS(r) == r.continent # Some("Unknown") /\ r.country = Some("United States")

\* clean_and_transform_data.  With no row left after the first dropna the
\* parsed columns do not exist and df['state'] raises KeyError; with no row
\* left after the second one the assignment of the two columns country and
\* continent raises ValueError.
CleanAndTransformData ==
    /\ pc = "clean"
    /\ LET cleaned == dropna(df)
           withParsed == [i \in 1..Len(cleaned) |-> WithParsed(cleaned[i])]
           kept == DropUnparsed(withParsed)
           out == SelectSeq([i \in 1..Len(kept) |-> Transformed(kept[i])], IsUS)
       IN  IF cleaned = <<>> \/ kept = <<>>
           THEN /\ pc' = "failed"
                /\ error' = IF cleaned = <<>> THEN "KeyError" ELSE "ValueError"
                /\ UNCHANGED <<df, fileVars>>
           ELSE /\ pc' = "download"
                /\ df' = out
                /\ transformed_file' = Some(out)
                /\ UNCHANGED <<raw_data_file, county_file, final_file, error>>
    /\ UNCHANGED <<diskVars, parseVars, normVars, loadVars>>

\* The ways a GET of the archive ends: a response that raise_for_status
\* accepts, a failed verification of the certificate, another failure of
\* the TLS handshake, a status that raise_for_status rejects, no connection.
GetOutcomes ==
    {"ok", "CertificateVerifyFailed", "HandshakeFailed", "HTTPError", "ConnectionError"}

\* With verify=False the certificate is not verified.
UnverifiedOutcomes == GetOutcomes \ {"CertificateVerifyFailed"}

\* The exception a GET followed by raise_for_status raises, "" if none:
\* requests raises SSLError for every failure of the TLS layer.
Raised(outcome) ==
    IF outcome = "ok" THEN ""
    ELSE IF outcome \in {"CertificateVerifyFailed", "HandshakeFailed"} THEN "SSLError"
    ELSE outcome

\* line 241: except (SSLError, requests.exceptions.SSLError)
Caught(exception) == exception = "SSLError"

\* download_shapefile up to the write, lines 237-243: the requests sent and
\* the exception that leaves the function, "" when resp is a response.
download_shapefile(first, retry) ==
    LET verified == [url |-> "shape_zip_url", verify |-> TRUE, outcome |-> first]
        unverified == [url |-> "shape_zip_url", verify |-> FALSE, outcome |-> retry]
    IN  IF Caught(Raised(first))
        THEN [requests |-> <<verified, unverified>>, raised |-> Raised(retry)]
        ELSE [requests |-> <<verified>>, raised |-> Raised(first)]

\* add_county_data, lines 268-269: download_shapefile unless the archive is
\* there.  The content of the response is the whole archive or something
\* else (a truncated body, a page of a proxy); it is written to the local
\* file, and a write that fails leaves a partial file.
DownloadShapefile ==
    /\ pc = "download"
    /\ IF shape_zip_local # "absent"
       THEN /\ pc' = "extract"
            /\ UNCHANGED <<shape_zip_local, error, requests>>
       ELSE \E first \in GetOutcomes, retry \in UnverifiedOutcomes,
               content \in {"complete", "partial"}, written \in BOOLEAN :
              LET call == download_shapefile(first, retry)
              IN  /\ requests' = call.requests
                  /\ IF call.raised = ""
                     THEN /\ shape_zip_local' = IF written THEN content ELSE "partial"
                          /\ pc' = IF written THEN "extract" ELSE "failed"
                          /\ error' = IF written THEN "" ELSE "OSError"
                     ELSE /\ pc' = "failed"
                          /\ error' = call.raised
                          /\ UNCHANGED shape_zip_local
    /\ UNCHANGED <<df, fileVars, shape_dir, parseVars, normVars, all_data>>

\* add_county_data, lines 271-272: extract_zip unless the directory is
\* there.  The directory is made first; the archive is then opened, which
\* fails on a partial archive, and extracted, which may fail half way.
ExtractZip ==
    /\ pc = "extract"
    /\ IF shape_dir # "absent"
       THEN /\ pc' = "join"
            /\ UNCHANGED <<shape_dir, error>>
       ELSE \E extracted \in {"complete", "partial"} :
              LET result == IF shape_zip_local = "complete" THEN extracted ELSE "partial"
              IN  /\ shape_dir' = result
                  /\ pc' = IF result = "complete" THEN "join" ELSE "failed"
                  /\ error' = IF result = "complete" THEN ""
                              ELSE IF shape_zip_local = "complete" THEN "OSError"
                              ELSE "BadZipFile"
    /\ UNCHANGED <<df, fileVars, shape_zip_local, parseVars, normVars, loadVars>>

\* predicate="intersects": the point lies in the polygon or on its boundary.
intersects(r, c) == c.west <= Get(r.longitude) /\ Get(r.longitude) <= c.east

\* The elements of a set of numbers in increasing order.
RECURSIVE Sorted(_)
Sorted(S) ==
    IF S = {} THEN <<>>
    ELSE LET m == CHOOSE x \in S : \A y \in S : x <= y
         IN  <<m>> \o Sorted(S \ {m})

Joined(r, index_right, county) ==
    [earthquake_id |-> r.earthquake_id, time |-> r.time, latitude |-> r.latitude,
     longitude |-> r.longitude,
     offset_distance |-> r.offset_distance, offset_direction |-> r.offset_direction,
     nearest_locality |-> r.nearest_locality, state |-> r.state,
     country |-> r.country, continent |-> r.continent,
     index_right |-> index_right, county |-> county]

\* gpd.sjoin(left, right, how="left", predicate="intersects"), the geometry
\* column dropped: one row for every pair of a left row and a right row that
\* intersect, and one row with the right columns missing for a left row that
\* intersects none.
RECURSIVE sjoin(_, _)
sjoin(left, right) ==
    IF left = <<>> THEN <<>>
    ELSE LET r == Head(left)
             hits == Sorted({j \in 1..Len(right) : intersects(r, right[j])})
         IN  (IF hits = <<>>
              THEN <<Joined(r, None, None)>>
              ELSE [k \in 1..Len(hits) |->
                      Joined(r, Some(hits[k]), Some(right[hits[k]].NAME))])
             \o sjoin(Tail(left), right)

\* add_county_data, lines 274-301: the shapefile is read, which fails when
\* the directory does not hold it whole, and joined to the records.
SpatialJoin ==
    /\ pc = "join"
    /\ IF shape_dir = "complete"
       THEN /\ df' = sjoin(df, Counties)
            /\ county_file' = Some(df')
            /\ pc' = "finalize"
            /\ UNCHANGED error
       ELSE /\ pc' = "failed"
            /\ error' = "DriverError"
            /\ UNCHANGED <<df, county_file>>
    /\ UNCHANGED <<raw_data_file, transformed_file, final_file, diskVars,
                   parseVars, normVars, loadVars>>

\* Series.str.replace(r'\s*km', '', regex=True): every match of \s*km, found
\* from left to right, is removed; the pattern is case-sensitive.
RECURSIVE str_replace_km(_)
str_replace_km(s) ==
    IF s = "" THEN ""
    ELSE LET w == Run(Space, s, 1)
         IN  IF w + 2 <= Len(s) /\ SubSeq(s, w + 1, w + 2) = "km"
             THEN str_replace_km(SubSeq(s, w + 3, Len(s)))
             ELSE Char(s, 1) \o str_replace_km(Tail(s))

\* float(s) accepts s when, blanks around it apart, it is a number; of the
\* strings parse_place captures as a distance only the decimal numerals are.
IsNumeral(s) ==
    strip(s) # "" /\ \A i \in 1..Len(strip(s)) : Char(strip(s), i) \in Digit

DigitValue(c) == CHOOSE v \in 0..9 : Char("0123456789", v + 1) = c

RECURSIVE Numeral(_)
Numeral(s) ==
    IF s = "" THEN 0
    ELSE 10 * Numeral(SubSeq(s, 1, Len(s) - 1)) + DigitValue(Char(s, Len(s)))

\* lines 333-337 on one cell: the cleaned text, and whether float takes it.
CleanedDistance(cell) == IF cell = None THEN "" ELSE str_replace_km(Get(cell))
Converts(cell) == cell = None \/ IsNumeral(CleanedDistance(cell))
AsFloat(cell) ==
    IF cell = None THEN None ELSE Some(Numeral(strip(CleanedDistance(cell))))

\* lines 316-330: the region column added, three columns dropped.
WithRegion(r) ==
    [earthquake_id |-> r.earthquake_id, time |-> r.time, latitude |-> r.latitude,
     longitude |-> r.longitude,
     offset_distance |-> r.offset_distance, offset_direction |-> r.offset_direction,
     nearest_locality |-> r.nearest_locality, state |-> r.state,
     county |-> r.county, region |-> region_column(r.state)]

InRegion(r) == r.region # Some("Non-US")

WithKilometres(r) == [r EXCEPT !.offset_distance = AsFloat(r.offset_distance)]

\* add_regions_and_finalize.  astype(float) raises ValueError when a cell of
\* the column is not a number; the final file is then not written.
AddRegionsAndFinalize ==
    /\ pc = "finalize"
    /\ LET cleaned == dropna(df)
           regioned == SelectSeq([i \in 1..Len(cleaned) |-> WithRegion(cleaned[i])],
                                 InRegion)
       IN  IF \A i \in 1..Len(regioned) : Converts(regioned[i].offset_distance)
           THEN /\ df' = [i \in 1..Len(regioned) |-> WithKilometres(regioned[i])]
                /\ final_file' = Some(df')
                /\ pc' = "done"
                /\ UNCHANGED error
           ELSE /\ pc' = "failed"
                /\ error' = "ValueError"
                /\ UNCHANGED <<df, final_file>>
    /\ UNCHANGED <<raw_data_file, transformed_file, county_file, diskVars,
                   parseVars, normVars, loadVars>>

\* The pipeline is run again after a run that completed or failed: the feed
\* gives the same table, the files and the shapefile artifacts on disk are
\* those the earlier runs left.
RunAgain ==
    /\ pc \in {"done", "failed"}
    /\ pc' = "clean"
    /\ df' = Get(raw_data_file)
    /\ error' = ""
    /\ requests' = <<>>
    /\ UNCHANGED <<fileVars, diskVars, all_data, parseVars, normVars>>

Init ==
    /\ pc = "clean"
    /\ df \in RawTables
    /\ raw_data_file = Some(df)
    /\ transformed_file = None /\ county_file = None /\ final_file = None
    /\ \E disk \in {"absent", "complete"} :
          shape_zip_local = disk /\ shape_dir = disk
    /\ error = ""
    /\ requests = <<>> /\ all_data = <<>>
    /\ ParseIdle /\ NormIdle

Next ==
    \/ CleanAndTransformData
    \/ DownloadShapefile
    \/ ExtractZip
    \/ SpatialJoin
    \/ AddRegionsAndFinalize
    \/ RunAgain

Spec == Init /\ [][Next]_vars

(***************************************************************************)
(* load_earthquake_data: one request to the event feed for every month of  *)
(* every year, the tables that are not empty collected in all_data and     *)
(* concatenated at the end.  A row of a monthly table is known by the      *)
(* month it belongs to and its number in the month.                        *)
(***************************************************************************)

\* Bounds: the years of self.years (six in the source), the months of a
\* year (twelve in the source), the rows of a monthly table.
MaxYears == 2
MaxMonth == 2
MaxMonthRows == 1

years == [i \in 1..MaxYears |-> 2019 + i]

\* The order of the two loops: years outside, months inside.
Schedule ==
    [k \in 1..(MaxYears * MaxMonth) |->
        [year |-> years[((k - 1) \div MaxMonth) + 1], month |-> ((k - 1) % MaxMonth) + 1]]

\* The answers of the feed: 200 with a CSV of some rows (the header alone
\* when the month has no event), 204 (no content), 503.
StatusCodes == {200, 204, 503}
Responses == {[status_code |-> c, rows |-> n] : c \in StatusCodes, n \in 0..MaxMonthRows}

\* pd.read_csv of the content of a response.
read_csv(year, month, response) ==
    [k \in 1..response.rows |-> [year |-> year, month |-> month, row |-> k]]

\* fetch_month_data: the table of the month on 200, an empty table otherwise.
fetch_month_data(year, month, response) ==
    IF response.status_code = 200 THEN read_csv(year, month, response) ELSE <<>>

\* pd.concat(frames, ignore_index=True)
RECURSIVE concat(_)
concat(frames) ==
    IF frames = <<>> THEN <<>> ELSE Head(frames) \o concat(Tail(frames))

\* One turn of the loops of lines 109-113.
FetchMonthData ==
    /\ pc = "load"
    /\ Len(requests) < Len(Schedule)
    /\ LET at == Schedule[Len(requests) + 1]
       IN  \E response \in Responses :
              LET df_month == fetch_month_data(at.year, at.month, response)
              IN  /\ requests' = Append(requests,
                                   [url |-> "base_url", year |-> at.year, month |-> at.month,
                                    status_code |-> response.status_code])
                  /\ all_data' = IF df_month # <<>> THEN Append(all_data, df_month)
                                 ELSE all_data
    /\ UNCHANGED <<pc, df, fileVars, diskVars, error, parseVars, normVars>>

\* lines 116-120, after the loops: pd.concat raises ValueError (no objects
\* to concatenate) on an empty list; otherwise the combined table is written.
CombineAndSave ==
    /\ pc = "load"
    /\ Len(requests) = Len(Schedule)
    /\ IF all_data = <<>>
       THEN /\ pc' = "failed"
            /\ error' = "ValueError"
            /\ UNCHANGED <<df, raw_data_file>>
       ELSE /\ df' = concat(all_data)
            /\ raw_data_file' = Some(df')
            /\ pc' = "loaded"
            /\ UNCHANGED error
    /\ UNCHANGED <<transformed_file, county_file, final_file, diskVars,
                   parseVars, normVars, loadVars>>

LoadInit ==
    /\ pc = "load"
    /\ PipeIdle /\ ParseIdle /\ NormIdle

LoadNext == FetchMonthData \/ CombineAndSave

LoadSpec == LoadInit /\ [][LoadNext]_vars

(***************************************************************************)
(* Properties of the parser (ParseSpec).                                   *)
(***************************************************************************)
ParseDone == pc \in {"parsed", "reparsed"}

Fallback(nearest) ==
    [distance |-> None, direction |-> None, nearest |-> nearest, state |-> None]

\* C1: a place string that the pattern does not match yields nearest equal
\* to the whole input with the blanks around it trimmed, and no distance,
\* direction or state.
C1_FallbackIsTrimmedInput ==
    (ParseDone /\ Match(strip(txt)) = None) => parsed = Fallback(strip(txt))

HasComma(s) == \E i \in 1..Len(s) : Char(s, i) = ","

\* s begins with digits and the unit km.
BeginsWithDistance(s) ==
    /\ Run(Digit, s, 1) >= 1
    /\ LitAt("k", "m", s, 1 + Run(Digit, s, 1) + Run(Space, s, 1 + Run(Digit, s, 1)))

\* s begins with one to three compass letters and, apart from them, the word of.
BeginsWithCompassOf(s) ==
    LET n == Run(Compass, s, 1)
        w == Run(Space, s, n + 1)
    IN  n \in 1..3 /\ w >= 1 /\ LitAt("o", "f", s, n + 1 + w)

\* C2: a place string with no comma, no distance token at its head and no
\* compass code followed by the separate word of at its head yields nearest
\* equal to the trimmed input and no distance, direction or state.  It is
\* stated for the strings with no blank at either end, for which the trimmed
\* input is the input (the others are the matter of C1).
C2_PlainTextIsNearest ==
    ( /\ ParseDone
      /\ strip(txt) = txt
      /\ ~HasComma(txt)
      /\ ~BeginsWithDistance(strip(txt))
      /\ ~BeginsWithCompassOf(strip(txt)) )
    => parsed = Fallback(strip(txt))

FullGrammar(r) == r.distance # None /\ r.direction # None /\ r.state # None

\* C3 as stated: for a place string that matches the full grammar, parsing
\* "<nearest>, <state>" again yields the same nearest and the same state.
\* It is stated for the strings whose nearest is not empty (an empty nearest
\* is the matter of C4).
C3_ReparseSame ==
    (pc = "reparsed" /\ FullGrammar(parsed) /\ parsed.nearest # "")
    => (reparsed.nearest = parsed.nearest /\ reparsed.state = parsed.state)

\* C3: for a place string that matches the full grammar, parsing
\* "<nearest>, <state>" again yields the same state, and the same nearest
\* exactly when the second parse takes no distance and no direction off the
\* head of nearest; when nearest is empty the rebuilt string does not match
\* and the second parse is the fallback.
C3_ReparseStable ==
    (pc = "reparsed" /\ FullGrammar(parsed))
    => IF parsed.nearest = ""
       THEN reparsed = Fallback(Reconstruct(parsed))
       ELSE /\ reparsed.state = parsed.state
            /\ (reparsed.nearest = parsed.nearest)
                 <=> (reparsed.distance = None /\ reparsed.direction = None)

\* A full-grammar string has been parsed twice, with the same nearest.
C3_Witness ==
    /\ pc = "reparsed" /\ FullGrammar(parsed)
    /\ parsed.nearest # "" /\ reparsed.nearest = parsed.nearest
    /\ reparsed.state = parsed.state

\* C4: for a place string with a character that is not a blank, the
\* nearest returned is not empty after trimming.
C4_NearestNonEmpty ==
    (ParseDone /\ strip(txt) # "") => strip(parsed.nearest) # ""

(***************************************************************************)
(* Properties of the normalisation (NormSpec).                             *)
(***************************************************************************)

\* The two-letter postal abbreviations of the states of the region table:
\* those state_mapping holds, and Alabama's.
PostalCode == state_mapping \cup {<<"AL", "Alabama">>}

\* The state a token names, by its full name or its postal abbreviation.
NamedState(t) ==
    {st \in RegionStates : t = st \/ <<t, st>> \in PostalCode}

RegionOf(st) == us_regions[CHOOSE i \in 1..Len(us_regions) :
                              st \in Range(us_regions[i].states)].region

\* C6: a state token that is the postal abbreviation or the full name of a
\* state of the region table is expanded to the full name, classified
\* United States / North America and given the region of that state.
C6_NormalizationComplete ==
    (pc = "region" /\ token # None /\ NamedState(Get(token)) # {})
    => LET st == CHOOSE x \in NamedState(Get(token)) : TRUE
       IN  /\ expanded = Some(st)
           /\ country = <<"United States", "North America">>
           /\ region = Some(RegionOf(st))

FourRegions == {"Northeast", "Midwest", "South", "West"}

\* C8: a state of the four region lists is in exactly one of them and is
\* mapped to that region; every other state value, and a missing one, is
\* mapped to Non-US.
C8_RegionMappingTotal ==
    pc = "region"
    => IF expanded # None /\ RegionsListing(Get(expanded)) # {}
       THEN /\ Cardinality(RegionsListing(Get(expanded))) = 1
            /\ region = Some(RegionOf(Get(expanded)))
            /\ Get(region) \in FourRegions
       ELSE region = Some("Non-US")

\* A listed state and its region; the other case is the token ZZ.
C8_Witness ==
    pc = "region" /\ expanded = Some("Illinois") /\ region = Some("Midwest")

FullNames == RegionStates \cup us_states \cup {p[2] : p \in state_mapping}

Letters == {UpperCase[i] : i \in 1..26} \cup {LowerCase[i] : i \in 1..26}
TwoLetterCode(s) == Len(s) = 2 /\ Char(s, 1) \in Letters /\ Char(s, 2) \in Letters

\* C9: expanding twice is expanding once; a full state name, a two-letter
\* code that is no key of state_mapping and a missing state are returned
\* as they are.
C9_ExpandIdempotentConservative ==
    /\ pc = "twice" => twice = expanded
    /\ pc # "token" =>
         /\ token = None => expanded = None
         /\ (token # None /\ Get(token) \in FullNames) => expanded = token
         /\ (token # None /\ TwoLetterCode(Get(token)) /\ Get(token) \notin MappingKeys)
              => expanded = token

\* A key has been expanded, and expanded again.
C9_Witness ==
    pc = "twice" /\ token = Some("IL") /\ expanded = Some("Illinois")
    /\ twice = Some("Illinois")

(***************************************************************************)
(* Properties of the pipeline run (Spec).                                  *)
(***************************************************************************)

CountiesAt(r) == {Counties[j].NAME : j \in {k \in 1..Len(Counties) : intersects(r, Counties[k])}}

\* C5: add_county_data writes one row for every record it is given, with
\* the name of a county that intersects the point, or no county when none
\* does.
C5_OneRowPerRecord ==
    county_file # None
    => LET given == Get(transformed_file)
           out == Get(county_file)
       IN  /\ Len(out) = Len(given)
           /\ \A i \in 1..Len(given) :
                /\ out[i].earthquake_id = given[i].earthquake_id
                /\ IF CountiesAt(given[i]) = {} THEN out[i].county = None
                   ELSE out[i].county # None /\ Get(out[i].county) \in CountiesAt(given[i])

\* The records of the raw table whose place is Anchorage, Alaska, with all
\* feed columns present and the point in a county.
AnchorageRows ==
    {i \in 1..Len(Get(raw_data_file)) :
        LET r == Get(raw_data_file)[i]
        IN  r.place = Some("Anchorage, Alaska") /\ Complete(r) /\ CountiesAt(r) # {}}

AnchorageParse ==
    parse_place("Anchorage, Alaska") =
        [distance |-> None, direction |-> None, nearest |-> "Anchorage",
         state |-> Some("Alaska")]

\* C7 as stated: the record Anchorage, Alaska is parsed to nearest
\* Anchorage, state Alaska, no distance and no direction, and is in the
\* final dataset of a run that completes, with region West.
C7_AnchorageReachesFinal ==
    pc = "done"
    => /\ AnchorageParse
       /\ \A i \in AnchorageRows :
            \E j \in 1..Len(Get(final_file)) :
               /\ Get(final_file)[j].earthquake_id = Some(i)
               /\ Get(final_file)[j].region = Some("West")

IdsOf(file) == IF file = None THEN {} ELSE {Get(Get(file)[j].earthquake_id) : j \in 1..Len(Get(file))}

\* C7: the record Anchorage, Alaska is parsed to nearest Anchorage, state
\* Alaska, no distance and no direction, and is removed by the dropna that
\* follows the parse, as is every record without a distance or a direction:
\* it is in neither the transformed nor the final dataset.
C7_AnchorageDropped ==
    /\ AnchorageParse
    /\ AnchorageRows \cap (IdsOf(transformed_file) \cup IdsOf(final_file)) = {}
    /\ transformed_file # None =>
         \A j \in 1..Len(Get(transformed_file)) :
            /\ Get(transformed_file)[j].offset_distance # None
            /\ Get(transformed_file)[j].offset_direction # None

\* A run with an Anchorage record has completed and written other records.
C7_Witness ==
    pc = "done" /\ AnchorageRows # {} /\ Get(final_file) # <<>>

\* The digits at the head of a captured distance, as a number.
LeadingNumber(d) == Numeral(SubSeq(d, 1, Run(Digit, d, 1)))

\* C10: the conversion of the distance column does not fail, and the final
\* dataset holds, for every record, the number its captured distance
\* begins with.
C10_DistanceConverted ==
    /\ ~(pc = "failed" /\ county_file # None /\ error = "ValueError")
    /\ pc = "done" =>
         \A j \in 1..Len(Get(final_file)) :
            \E i \in 1..Len(Get(transformed_file)) :
               /\ Get(transformed_file)[i].earthquake_id = Get(final_file)[j].earthquake_id
               /\ Get(final_file)[j].offset_distance =
                     Some(LeadingNumber(Get(Get(transformed_file)[i].offset_distance)))

\* The rows of the transformed dataset that clean_and_transform_data
\* classified United States, with a state.
ClassifiedUS ==
    {Get(Get(transformed_file)[i].earthquake_id) :
        i \in {k \in 1..Len(Get(transformed_file)) :
                 /\ Get(transformed_file)[k].country = Some("United States")
                 /\ Get(transformed_file)[k].state # None}}

\* C11: every record of the final dataset is a record that
\* clean_and_transform_data classified country United States, with a state;
\* no record classified Unknown or without a state is in the final file.
C11_FinalIsUnitedStates ==
    final_file # None
    => /\ IdsOf(final_file) \subseteq ClassifiedUS
       /\ \A j \in 1..Len(Get(final_file)) : Get(final_file)[j].state # None

\* The records of the raw table that get_country_continent does not classify
\* United States although the rest of the run would keep them: all columns
\* present, a distance that converts, a point in a county, a state of the
\* region table.
UnknownButRegional ==
    {i \in 1..Len(Get(raw_data_file)) :
        LET r == Get(raw_data_file)[i]
        IN  /\ Complete(r) /\ CountiesAt(r) # {}
            /\ Complete(WithParsed(r))
            /\ ~IsUS(Transformed(WithParsed(r)))
            /\ region_column(Transformed(WithParsed(r)).state) # Some("Non-US")}

\* A run has completed and written records, and the country filter had
\* removed a record that the region filter would have kept.
C11_Witness ==
    pc = "done" /\ Get(final_file) # <<>> /\ UnknownButRegional # {}

LoadEnded == pc \in {"loaded", "failed"}

\* The months were requested in the order of the loops, as far as the loops went.
RequestedInOrder ==
    \A k \in 1..Len(requests) :
        requests[k].year = Schedule[k].year /\ requests[k].month = Schedule[k].month

\* C12: whatever the status codes of the monthly requests, every month is
\* requested, in order, a month that answers other than 200 gives no row,
\* and load_earthquake_data completes and writes the combined table.  The
\* months that answer 200 with no row are left aside.
C12_LoadSurvivesFailedMonths ==
    /\ RequestedInOrder
    /\ (LoadEnded /\ \A k \in 1..Len(requests) :
                        requests[k].status_code = 200 => \E f \in 1..Len(all_data) :
                            all_data[f][1].year = requests[k].year
                            /\ all_data[f][1].month = requests[k].month)
       => /\ Len(requests) = Len(Schedule)
          /\ pc = "loaded"
          /\ raw_data_file = Some(df)
          /\ \A i \in 1..Len(df) :
                \E k \in 1..Len(requests) :
                   /\ requests[k].status_code = 200
                   /\ requests[k].year = df[i].year /\ requests[k].month = df[i].month

\* The requests of download_shapefile in this run: an unverified request is
\* the second one and follows a verified request that ended in one of causes.
RetryOnlyAfter(causes) ==
    /\ Len(requests) <= 2
    /\ \A k \in 1..Len(requests) :
          IF k = 1 THEN requests[k].verify
          ELSE ~requests[k].verify /\ requests[1].outcome \in causes

\* The last request of download_shapefile failed: the run has ended with
\* its exception and the archive was not written.
FailurePropagates ==
    (requests # <<>> /\ requests[Len(requests)].outcome # "ok")
    => /\ pc = "failed"
       /\ error = Raised(requests[Len(requests)].outcome)
       /\ shape_zip_local = "absent"

\* C13: download_shapefile sends at most two requests; the second one,
\* without verification, is sent only after the first one failed the
\* verification of the certificate; a failure of the last request ends the
\* run and the archive is then not written.
C13_RetryOnlyOnCertificateFailure ==
    RetryOnlyAfter({"CertificateVerifyFailed"}) /\ FailurePropagates

\* The same with every failure of the TLS layer as a cause of the retry.
RetryOnlyOnSSLError ==
    RetryOnlyAfter({"CertificateVerifyFailed", "HandshakeFailed"}) /\ FailurePropagates

\* C14: in every run, the first one or a later one, an archive that is
\* there when add_county_data comes to the download is the whole archive, a
\* directory that is there when it comes to the extraction holds the whole
\* shapefile, and the shapefile that is read is whole: no run fails reading
\* a shapefile that an earlier run left.
C14_ReusedArtifactsComplete ==
    /\ pc = "download" => shape_zip_local \in {"absent", "complete"}
    /\ pc = "extract" => shape_dir \in {"absent", "complete"}
    /\ pc = "join" => shape_dir = "complete"
    /\ ~(pc = "failed" /\ error = "DriverError")

====
